---- MODULE Spec2Model ----
(***************************************************************************)
(* Model of python_scripts/generate_interfaces.py: the generator that      *)
(* turns the .json interface definitions of a directory into a pair of C   *)
(* artifacts (<output_fn>.h, <output_fn>.c) or, in check mode, compares    *)
(* the freshly rendered text with the artifacts already on disk.           *)
(*                                                                         *)
(* Strings that the code transforms (file names, interface names, output   *)
(* names, mapping types) are sequences of one-character strings.  A text   *)
(* produced by Template.substitute is the record of the values put into    *)
(* the template's placeholders.  A file on disk is its text together with  *)
(* the line terminator its bytes use.                                      *)
(***************************************************************************)
EXTENDS Integers, Sequences, FiniteSets, TLC

\* ------------------------------------------------------------------ bounds
MaxRuns == 2
MaxFiles == 2

\* ------------------------------------------------------- characters, order
Lower == <<"a","b","c","d","e","f","g","h","i","j","k","l","m",
           "n","o","p","q","r","s","t","u","v","w","x","y","z">>

UpperL == <<"A","B","C","D","E","F","G","H","I","J","K","L","M",
            "N","O","P","Q","R","S","T","U","V","W","X","Y","Z">>

\* code points of the lower-case and of the upper-case letters
LowerCode == [c \in {Lower[i] : i \in 1..Len(Lower)} |->
                96 + CHOOSE i \in 1..Len(Lower) : Lower[i] = c]

UpperCode == [c \in {UpperL[i] : i \in 1..Len(UpperL)} |->
                64 + CHOOSE i \in 1..Len(UpperL) : UpperL[i] = c]

\* code point of a character (str comparison is by code point)
Code(c) == IF c \in DOMAIN LowerCode THEN LowerCode[c]
           ELSE IF c \in DOMAIN UpperCode THEN UpperCode[c]
           ELSE IF c = "-" THEN 45
           ELSE IF c = "." THEN 46
           ELSE IF c = "/" THEN 47
           ELSE IF c = "_" THEN 95
           ELSE 0

UpperChar(c) == IF c \in DOMAIN LowerCode THEN UpperL[LowerCode[c] - 96] ELSE c

\* str.upper()
Upper(s) == [i \in 1..Len(s) |-> UpperChar(s[i])]

\* str.replace(old, new) for one-character old and new
Replace(s, old, new) == [i \in 1..Len(s) |-> IF s[i] = old THEN new ELSE s[i]]

\* interface.name.replace(".", "_").replace("-", "_")
Sanitize(name) == Replace(Replace(name, ".", "_"), "-", "_")

RECURSIVE LexLess(_, _)
\* a < b for two strings (the order sorted() uses on paths of one directory)
LexLess(a, b) ==
    IF a = <<>> THEN b # <<>>
    ELSE IF b = <<>> THEN FALSE
    ELSE IF Code(a[1]) # Code(b[1]) THEN Code(a[1]) < Code(b[1])
    ELSE LexLess(Tail(a), Tail(b))

\* Path.suffix: the part of the name from its last dot, "" when the name has
\* no dot after its first character or ends with a dot
LastDot(name) == IF \E i \in 2..Len(name) : name[i] = "."
                 THEN CHOOSE i \in 2..Len(name) :
                        name[i] = "." /\ \A j \in (i+1)..Len(name) : name[j] # "."
                 ELSE 0

Suffix(name) == IF LastDot(name) > 0 /\ LastDot(name) < Len(name)
                THEN SubSeq(name, LastDot(name), Len(name))
                ELSE <<>>

JsonSuffix == <<".","j","s","o","n">>

\* ---------------------------------------------------- mapping lookup table
reliability_lookup == (0 :> "UNRELIABLE") @@ (1 :> "GUARANTEED") @@ (2 :> "UNIQUE")

\* -------------------------------------------------------- input documents
MkMapping(e, t, r, ts, au) ==
    [endpoint |-> e, type |-> t, reliability |-> r,
     explicit_timestamp |-> ts, allow_unset |-> au]

MapB == MkMapping(<<"/","b">>, <<"d","o","u","b","l","e">>, 1, TRUE, FALSE)
MapA == MkMapping(<<"/","a">>, <<"s","t","r","i","n","g">>, 0, FALSE, TRUE)
MapU == MkMapping(<<"/","u">>, <<"d","o","u","b","l","e">>, 2, FALSE, FALSE)
MapR3 == MkMapping(<<"/","r">>, <<"d","o","u","b","l","e">>, 3, FALSE, FALSE)

MkDoc(n, maj, min, t, o, a, ms) ==
    [parses |-> TRUE, interface_name |-> n, version_major |-> maj,
     version_minor |-> min, type |-> t, ownership |-> o, aggregation |-> a,
     mappings |-> ms]

\* a file that json.load cannot parse
DocGarbage == [parses |-> FALSE]

DocHyphen == MkDoc(<<"o",".","a","-","b">>, 0, 1,
                   "datastream", "device", "individual", <<MapB, MapA>>)
DocUnder == MkDoc(<<"o",".","a","_","b">>, 1, 0,
                  "properties", "server", "object", <<MapU>>)
DocRel3 == MkDoc(<<"o",".","r">>, 1, 0,
                 "datastream", "device", "individual", <<MapA, MapR3>>)
DocEnum == MkDoc(<<"o",".","e">>, 1, 0, "stream", "cloud", "bundle", <<MapA>>)
DocEmpty == MkDoc(<<"o",".","z">>, 1, 0,
                  "datastream", "device", "individual", <<>>)

\* the name <stem>.json
JsonName(stem) == stem \o <<".","j","s","o","n">>

\* the schema files an input directory may hold: file name -> document
SchemaFiles ==
    (JsonName(<<"a","-","a">>) :> DocGarbage)
    @@ (JsonName(<<"a","-","b">>) :> DocUnder)
    @@ (JsonName(<<"a">>) :> DocHyphen)
    @@ (JsonName(<<"e">>) :> DocEnum)
    @@ (JsonName(<<"m">>) :> DocEmpty)
    @@ (JsonName(<<"z">>) :> DocRel3)

\* a file of the input directory that is not a schema
NoteName == <<"n",".","t","x","t">>

\* values of output_fn: args.output_prefix + "generated_interfaces"
OutNames == { <<"g","i">>, <<"x","_","g","i">> }

HeaderName(fn) == fn \o <<".","h">>
SourceName(fn) == fn \o <<".","c">>

\* ------------------------------------------------------------ disk files
Absent == [present |-> FALSE]

\* bytes written by open(path, "w").write(text) on this platform
WriteText(t) == [present |-> TRUE, text |-> t, eol |-> "LF"]

\* the file read as bytes: a bytes object, which no str equals
ReadBinary(f) == [bytes |-> f.text, eol |-> f.eol]

\* open(path, "r").read(): universal newlines, every terminator read as "\n"
ReadText(f) == f.text

\* a file opened for writing whose write did not happen
TruncatedText == [kind |-> "empty"]

\* some text that no run renders
EditedText == [kind |-> "edited"]

\* ---------------------------------------------------------------- state
VARIABLES
    inFiles,        \* input directory: schema file name -> document
    sameDir,        \* output_dir is interfaces_dir (the default)
    strictLib,      \* the installed Interface class validates its input
    dirExists,      \* the output directory exists
    art,            \* [h, c]: the artifacts <output_fn>.h, <output_fn>.c on disk
    pc,             \* position of the run
    check,          \* args.check
    output_fn,      \* output file name without extension (the same in every run)
    todo,           \* files the loop has still to load
    done,           \* files the loop has loaded
    interfaces_declarations,
    interfaces_structs,
    interfaces_header,
    interfaces_source,
    exitCode,       \* process exit code of the finished run
    report,         \* what the finished run reported
    runs,           \* number of runs started
    art0,           \* artifacts when the current run started
    dirExists0,     \* output directory existed when the current run started
    prev            \* the run before the current one

vars == <<inFiles, sameDir, strictLib, dirExists, art, pc, check, output_fn,
          todo, done, interfaces_declarations, interfaces_structs,
          interfaces_header, interfaces_source, exitCode, report, runs,
          art0, dirExists0, prev>>

env == <<inFiles, sameDir, strictLib, output_fn>>
disk == <<dirExists, art>>
args == <<check>>
hist == <<runs, art0, dirExists0, prev>>
lists == <<interfaces_declarations, interfaces_structs>>
texts == <<interfaces_header, interfaces_source>>

NoText == [kind |-> "none"]
NoRun == [ran |-> FALSE]

\* ------------------------------------------------------------ the loader
\* Interface(interface_json) raises for this document
InterfaceRaises(doc, strict) ==
    IF ~strict THEN FALSE
    ELSE ~( /\ doc.type \in {"properties", "datastream"}
            /\ doc.ownership \in {"device", "server"}
            /\ doc.aggregation \in {"individual", "object"}
            /\ doc.mappings # <<>> )

is_type_properties(interface) == interface.type = "properties"
is_server_owned(interface) == interface.ownership = "server"
is_aggregation_object(interface) == interface.aggregation = "object"

\* the mappings visited in the order of their endpoints
MappingsByEndpoint(interface) ==
    SortSeq(interface.mappings, LAMBDA m1, m2 : LexLess(m1.endpoint, m2.endpoint))

\* the mappings the loop visits when it stops one short of the end
MappingsButLast(interface) ==
    SubSeq(interface.mappings, 1, Len(interface.mappings) - 1)

\* the mappings of interface.mappings, in the order the loop visits them
MappingsOf(interface) == interface.mappings

\* mapping_definition_template.substitute(...)
MappingStruct(mapping) ==
    [endpoint |-> mapping.endpoint,
     type |-> <<"ASTARTE_MAPPING_TYPE_">> \o Upper(mapping.type),
     reliability |-> <<"ASTARTE_MAPPING_RELIABILITY_",
                       reliability_lookup[mapping.reliability]>>,
     explicit_timestamp |-> IF mapping.explicit_timestamp THEN "true" ELSE "false",
     allow_unset |-> IF mapping.allow_unset THEN "true" ELSE "false"]

\* reliability_lookup[mapping.reliability] raises KeyError
LookupRaises(interface) ==
    \E k \in 1..Len(MappingsOf(interface)) :
        MappingsOf(interface)[k].reliability \notin DOMAIN reliability_lookup

IType(interface) ==
    <<"ASTARTE_INTERFACE_",
      IF is_type_properties(interface) THEN "TYPE_PROPERTIES" ELSE "TYPE_DATASTREAM">>

IOwnership(interface) ==
    <<"ASTARTE_INTERFACE_",
      IF is_server_owned(interface) THEN "OWNERSHIP_SERVER" ELSE "OWNERSHIP_DEVICE">>

IAggregation(interface) ==
    <<"ASTARTE_INTERFACE_",
      IF is_aggregation_object(interface) THEN "AGGREGATION_OBJECT"
      ELSE "AGGREGATION_INDIVIDUAL">>

\* interface_definition_template.substitute(...)
InterfaceStruct(interface) ==
    [mappings_number |-> Len(interface.mappings),
     interface_name_sc |-> Sanitize(interface.interface_name),
     interface_name |-> interface.interface_name,
     version_major |-> interface.version_major,
     version_minor |-> interface.version_minor,
     type |-> IType(interface),
     ownership |-> IOwnership(interface),
     aggregation |-> IAggregation(interface),
     mappings |-> [k \in 1..Len(MappingsOf(interface)) |->
                     MappingStruct(MappingsOf(interface)[k])]]

\* the declaration with only the dots of the name replaced
InterfaceDeclarationDotsOnly(interface) ==
    [interface_name_sc |-> Replace(interface.interface_name, ".", "_")]

\* interface_declaration_template.substitute(...)
InterfaceDeclaration(interface) ==
    [interface_name_sc |-> Sanitize(interface.interface_name)]

\* the body of the loop raises for this file
LoadRaises(doc, strict) ==
    IF ~doc.parses THEN TRUE
    ELSE IF InterfaceRaises(doc, strict) THEN TRUE
    ELSE LookupRaises(doc)

\* interface_header_template.substitute(...)
HeaderText(fn, decls) ==
    [kind |-> "header", output_filename |-> fn, output_filename_cap |-> Upper(fn),
     interfaces_declarations |-> decls]

\* interface_source_template.substitute(...)
SourceText(fn, structs) ==
    [kind |-> "source", output_filename |-> fn, interfaces_declarations |-> structs]

\* ------------------------------------------------- directory enumeration
\* names of the generated files that are on disk in the input directory
ArtifactEntries(a, fn, same) ==
    IF same
    THEN (IF a.h.present THEN {HeaderName(fn)} ELSE {})
         \cup (IF a.c.present THEN {SourceName(fn)} ELSE {})
    ELSE {}

\* the entries interfaces_dir.iterdir() yields
DirEntries(files, a, fn, same) ==
    DOMAIN files \cup {NoteName} \cup ArtifactEntries(a, fn, same)

\* what json.load finds in an entry: the document of a schema file, and
\* nothing it can parse in a note or in a generated C file
ContentOf(files, n) == IF n \in DOMAIN files THEN files[n] ELSE DocGarbage

\* every entry of the directory, whatever its suffix
AllEntries(files, a, fn, same) == DirEntries(files, a, fn, same)

\* [i for i in interfaces_dir.iterdir() if i.suffix == ".json"]
JsonEntries(files, a, fn, same) ==
    {n \in DirEntries(files, a, fn, same) : Suffix(n) = JsonSuffix}

\* the orders in which the file system may yield a set of entries
Orders(S) == {f \in [1..Cardinality(S) -> S] : \A i, j \in 1..Cardinality(S) :
                                                  i # j => f[i] # f[j]}

\* the entries in the order the file system yielded them
Unsorted(entries) == entries

\* sorted(...)
Sorted(entries) == SortSeq(entries, LexLess)

\* ------------------------------------------- artifacts of an earlier run
\* the files of a directory in the order the loop loads them
LoadOrder(files) == Sorted(CHOOSE o \in Orders(DOMAIN files) : TRUE)

\* every schema file of the directory loads
AllLoad(files, strict) == \A n \in DOMAIN files : ~LoadRaises(files[n], strict)

\* the header a complete run over the directory renders
FreshHeader(files, fn) ==
    HeaderText(fn, [i \in 1..Len(LoadOrder(files)) |->
                      InterfaceDeclaration(files[LoadOrder(files)[i]])])

\* the source a complete run over the directory renders
FreshSource(files, fn) ==
    SourceText(fn, [i \in 1..Len(LoadOrder(files)) |->
                      InterfaceStruct(files[LoadOrder(files)[i]])])

\* what a file of the output directory may hold before the first run: nothing,
\* a text that is not the generator's, or the text of an earlier generation
\* stored with either line terminator
InitialContents(fresh, loads) ==
    {Absent, WriteText(EditedText)}
    \cup (IF loads THEN {WriteText(fresh), [present |-> TRUE, text |-> fresh, eol |-> "CRLF"]}
          ELSE {})

InputDirs == {[n \in S |-> SchemaFiles[n]] :
                 S \in {T \in SUBSET DOMAIN SchemaFiles : Cardinality(T) <= MaxFiles}}

Init ==
    /\ inFiles \in InputDirs
    /\ sameDir \in BOOLEAN
    /\ strictLib \in BOOLEAN
    /\ output_fn \in OutNames
    /\ dirExists \in (IF sameDir THEN {TRUE} ELSE BOOLEAN)
    /\ \E h \in InitialContents(FreshHeader(inFiles, output_fn), AllLoad(inFiles, strictLib)),
          c \in InitialContents(FreshSource(inFiles, output_fn), AllLoad(inFiles, strictLib)) :
          art = IF dirExists THEN [h |-> h, c |-> c] ELSE [h |-> Absent, c |-> Absent]
    /\ pc = "idle"
    /\ check = FALSE
    /\ todo = <<>>
    /\ done = <<>>
    /\ interfaces_declarations = <<>>
    /\ interfaces_structs = <<>>
    /\ interfaces_header = NoText
    /\ interfaces_source = NoText
    /\ exitCode = 0
    /\ report = "none"
    /\ runs = 0
    /\ art0 = art
    /\ dirExists0 = dirExists
    /\ prev = NoRun

\* ---------------------------------------------------------------- actions
\* the run ends with this exit code and report
Finish(code, what) ==
    /\ pc' = "done"
    /\ exitCode' = code
    /\ report' = what

\* generate_interfaces is entered: the directory is listed, filtered, sorted
StartRun(c, order) ==
    /\ pc \in {"idle", "done"}
    /\ runs < MaxRuns
    /\ check' = c
    /\ todo' = Sorted(order)
    /\ done' = <<>>
    /\ interfaces_declarations' = <<>>
    /\ interfaces_structs' = <<>>
    /\ interfaces_header' = NoText
    /\ interfaces_source' = NoText
    /\ exitCode' = 0
    /\ report' = "none"
    /\ runs' = runs + 1
    /\ art0' = art
    /\ dirExists0' = dirExists
    /\ prev' = IF pc = "idle" THEN NoRun
               ELSE [ran |-> TRUE, check |-> check, exitCode |-> exitCode]
    /\ pc' = "load"
    /\ UNCHANGED <<env, disk>>

\* one iteration of the loop over the schema files
LoadNext ==
    /\ pc = "load"
    /\ todo # <<>>
    /\ ~LoadRaises(ContentOf(inFiles, Head(todo)), strictLib)
    /\ interfaces_structs' = Append(interfaces_structs, InterfaceStruct(ContentOf(inFiles, Head(todo))))
    /\ interfaces_declarations' =
           Append(interfaces_declarations, InterfaceDeclaration(ContentOf(inFiles, Head(todo))))
    /\ todo' = Tail(todo)
    /\ done' = Append(done, Head(todo))
    /\ UNCHANGED <<env, disk, args, texts, pc, exitCode, report, hist>>

\* one iteration of the loop skips the file it cannot load
LoadSkip ==
    /\ pc = "load"
    /\ todo # <<>>
    /\ LoadRaises(ContentOf(inFiles, Head(todo)), strictLib)
    /\ todo' = Tail(todo)
    /\ UNCHANGED <<env, disk, args, done, lists, texts, pc, exitCode, report, hist>>

\* one iteration of the loop raises: the exception ends the process
LoadFail ==
    /\ pc = "load"
    /\ todo # <<>>
    /\ LoadRaises(ContentOf(inFiles, Head(todo)), strictLib)
    /\ Finish(1, "load_error")
    /\ UNCHANGED <<env, disk, args, todo, done, lists, texts, hist>>

\* the header and the source are filled in
Render ==
    /\ pc = "load"
    /\ todo = <<>>
    /\ interfaces_header' = HeaderText(output_fn, interfaces_declarations)
    /\ interfaces_source' = SourceText(output_fn, interfaces_structs)
    /\ pc' = IF check THEN "check_dir" ELSE "make_dir"
    /\ UNCHANGED <<env, disk, args, todo, done, lists, exitCode, report, hist>>

\* the directory is made before the mode is looked at
CheckDirCreates ==
    /\ pc = "check_dir"
    /\ dirExists' = TRUE
    /\ pc' = "check_header"
    /\ UNCHANGED <<env, art, args, todo, done, lists, texts, exitCode, report, hist>>

\* if not output_dir.exists(): exit
CheckDir ==
    /\ pc = "check_dir"
    /\ IF ~dirExists
       THEN Finish(1, "no_dir")
       ELSE pc' = "check_header" /\ UNCHANGED <<exitCode, report>>
    /\ UNCHANGED <<env, disk, args, todo, done, lists, texts, hist>>

\* the header is compared only when it is there
CheckHeaderIfPresent ==
    /\ pc = "check_header"
    /\ IF art.h.present /\ ReadText(art.h) # interfaces_header
       THEN Finish(1, "header_stale")
       ELSE pc' = "check_source" /\ UNCHANGED <<exitCode, report>>
    /\ UNCHANGED <<env, disk, args, todo, done, lists, texts, hist>>

\* the header on disk is read and compared
CheckHeader ==
    /\ pc = "check_header"
    /\ IF ~art.h.present
       THEN Finish(1, "header_missing")
       ELSE IF ReadText(art.h) # interfaces_header
       THEN Finish(1, "header_stale")
       ELSE pc' = "check_source" /\ UNCHANGED <<exitCode, report>>
    /\ UNCHANGED <<env, disk, args, todo, done, lists, texts, hist>>

\* the second comparison reads the header again
CheckSourceReadsHeader ==
    /\ pc = "check_source"
    /\ IF ~art.h.present
       THEN Finish(1, "source_missing")
       ELSE IF ReadText(art.h) # interfaces_header
       THEN Finish(1, "source_stale")
       ELSE Finish(0, "ok")
    /\ UNCHANGED <<env, disk, args, todo, done, lists, texts, hist>>

\* the source on disk is read and compared
CheckSource ==
    /\ pc = "check_source"
    /\ IF ~art.c.present
       THEN Finish(1, "source_missing")
       ELSE IF ReadText(art.c) # interfaces_source
       THEN Finish(1, "source_stale")
       ELSE Finish(0, "ok")
    /\ UNCHANGED <<env, disk, args, todo, done, lists, texts, hist>>

\* if not output_dir.exists(): os.makedirs(output_dir)
MakeDir ==
    /\ pc = "make_dir"
    /\ dirExists' = TRUE
    /\ pc' = "write_header"
    /\ UNCHANGED <<env, art, args, todo, done, lists, texts, exitCode, report, hist>>

\* os.makedirs raises
MakeDirFail ==
    /\ pc = "make_dir"
    /\ ~dirExists
    /\ Finish(1, "mkdir_error")
    /\ UNCHANGED <<env, disk, args, todo, done, lists, texts, hist>>

\* the header is written
WriteHeader ==
    /\ pc = "write_header"
    /\ art' = [art EXCEPT !.h = WriteText(interfaces_header)]
    /\ pc' = "write_source"
    /\ UNCHANGED <<env, dirExists, args, todo, done, lists, texts, exitCode, report, hist>>

\* open of the header raises (file untouched) or its write raises (file
\* left truncated)
WriteHeaderFail(truncated) ==
    /\ pc = "write_header"
    /\ art' = IF truncated
              THEN [art EXCEPT !.h = WriteText(TruncatedText)]
              ELSE art
    /\ Finish(1, "header_write_error")
    /\ UNCHANGED <<env, dirExists, args, todo, done, lists, texts, hist>>

\* the header text is written to the source file
WriteSourceWritesHeader ==
    /\ pc = "write_source"
    /\ art' = [art EXCEPT !.c = WriteText(interfaces_header)]
    /\ Finish(0, "ok")
    /\ UNCHANGED <<env, dirExists, args, todo, done, lists, texts, hist>>

\* the source is written: the run is complete
WriteSource ==
    /\ pc = "write_source"
    /\ art' = [art EXCEPT !.c = WriteText(interfaces_source)]
    /\ Finish(0, "ok")
    /\ UNCHANGED <<env, dirExists, args, todo, done, lists, texts, hist>>

\* open of the source raises or its write raises
WriteSourceFail(truncated) ==
    /\ pc = "write_source"
    /\ art' = IF truncated
              THEN [art EXCEPT !.c = WriteText(TruncatedText)]
              ELSE art
    /\ Finish(1, "source_write_error")
    /\ UNCHANGED <<env, dirExists, args, todo, done, lists, texts, hist>>

Next ==
    \/ /\ pc \in {"idle", "done"}
       /\ \E c \in BOOLEAN,
             order \in Orders(JsonEntries(inFiles, art, output_fn, sameDir)) :
                StartRun(c, order)
    \/ LoadNext
    \/ LoadFail
    \/ Render
    \/ CheckDir
    \/ CheckHeader
    \/ CheckSource
    \/ MakeDir
    \/ MakeDirFail
    \/ WriteHeader
    \/ \E t \in BOOLEAN : WriteHeaderFail(t)
    \/ WriteSource
    \/ \E t \in BOOLEAN : WriteSourceFail(t)

Spec == Init /\ [][Next]_vars

\* ------------------------------------------------------------ properties
\* the run has rendered both texts
Rendered == interfaces_header # NoText /\ interfaces_source # NoText

\* both artifacts hold exactly the bytes of the rendered texts
BothFresh == /\ art.h = WriteText(interfaces_header)
             /\ art.c = WriteText(interfaces_source)

\* the run has left the output location as it found it
DiskUntouched == art = art0 /\ dirExists = dirExists0

\* the run before this one was a write-mode run that succeeded
AfterGoodWrite == prev.ran /\ ~prev.check /\ prev.exitCode = 0

\* C1: a check-mode run that follows a successful write-mode run over the same
\* input directory, output directory and output name succeeds.
Idempotence ==
    (pc = "done" /\ check /\ AfterGoodWrite) => (exitCode = 0 /\ report = "ok")

WitnessIdempotence ==
    /\ pc = "done" /\ check /\ AfterGoodWrite
    /\ exitCode = 0
    /\ Len(done) = 2

\* the raw values of a document are all values of the closed enumerations
KnownValues(doc) ==
    /\ doc.type \in {"properties", "datastream"}
    /\ doc.ownership \in {"device", "server"}
    /\ doc.aggregation \in {"individual", "object"}
    /\ \A k \in 1..Len(doc.mappings) : doc.mappings[k].reliability \in {0, 1, 2}

\* a document every build of the library accepts
WellFormed(doc) == doc.parses /\ KnownValues(doc) /\ doc.mappings # <<>>

\* every file of the directory is well formed and two of them hold interfaces
\* with the same sanitized symbol
HasCollision(files) ==
    /\ \A n \in DOMAIN files : WellFormed(files[n])
    /\ \E n1, n2 \in DOMAIN files :
          /\ n1 # n2
          /\ Sanitize(files[n1].interface_name) = Sanitize(files[n2].interface_name)

\* C2: when two interfaces of the input sanitize to the same symbol the run is
\* rejected before anything is rendered or written: no rendered text exists,
\* the output location is untouched and the finished run has failed.
CollisionRejected ==
    HasCollision(inFiles) =>
        /\ ~Rendered
        /\ DiskUntouched
        /\ (pc = "done" => exitCode = 1)

\* a document the loop raises on whatever the installed library validates
Malformed(doc) == LoadRaises(doc, FALSE)

CheckNeverWrites ==
    (check /\ pc # "idle") =>
        /\ DiskUntouched
        /\ (pc = "done" /\ ~dirExists0 /\ todo = <<>> =>
                exitCode = 1 /\ report = "no_dir")

WitnessCheckNeverWrites ==
    /\ check /\ pc = "done" /\ ~dirExists0
    /\ todo = <<>> /\ done # <<>>
    /\ report = "no_dir"

\* the report of a failed check names the header
NamesHeader == report \in {"header_missing", "header_stale"}

\* the report of a failed check names the source
NamesSource == report \in {"source_missing", "source_stale"}

\* C5 as stated: a check-mode run succeeds exactly when both artifacts on disk
\* are byte for byte the rendered texts, and a failure names the first
\* artifact that is not.
CheckVerdictExact ==
    (pc = "done" /\ check /\ Rendered /\ dirExists) =>
        /\ exitCode = 0 <=> BothFresh
        /\ exitCode # 0 =>
              IF art.h # WriteText(interfaces_header) THEN NamesHeader ELSE NamesSource

\* the file is there and holds this text, whatever its line terminators
HoldsText(f, t) == f.present /\ f.text = t

\* C5 as amended: a check-mode run succeeds exactly when both artifacts are on
\* disk and hold the rendered texts up to their line terminators, and a
\* failure names the first artifact that does not.
CheckVerdict ==
    (pc = "done" /\ check /\ Rendered /\ dirExists) =>
        /\ exitCode = 0 <=> (HoldsText(art.h, interfaces_header)
                             /\ HoldsText(art.c, interfaces_source))
        /\ exitCode # 0 =>
              IF ~HoldsText(art.h, interfaces_header) THEN NamesHeader ELSE NamesSource

WitnessCheckVerdict ==
    /\ pc = "done" /\ check /\ Rendered /\ dirExists
    /\ exitCode = 0
    /\ art.h.eol = "CRLF"
    /\ done # <<>>

\* C6 as stated: a check-mode run over an existing output directory in which
\* an artifact is absent fails with exit code 1 and reports the absence of an
\* absent artifact.
CheckAbsenceReported ==
    (pc = "done" /\ check /\ Rendered /\ dirExists
        /\ (~art.h.present \/ ~art.c.present)) =>
        /\ exitCode = 1
        /\ \/ report = "header_missing" /\ ~art.h.present
           \/ report = "source_missing" /\ ~art.c.present

\* C6 as amended: such a run fails with exit code 1; it reports the absence
\* of the header when the header is absent, the absence of the source when
\* the header is present and up to date, and the header's mismatch when the
\* header is present and differs from the rendered text.
CheckAbsenceOrMismatch ==
    (pc = "done" /\ check /\ Rendered /\ dirExists
        /\ (~art.h.present \/ ~art.c.present)) =>
        /\ exitCode = 1
        /\ report = IF ~art.h.present THEN "header_missing"
                    ELSE IF art.h.text # interfaces_header THEN "header_stale"
                    ELSE "source_missing"

WitnessCheckAbsence ==
    /\ pc = "done" /\ check /\ Rendered /\ dirExists
    /\ art.h.present /\ ~art.c.present
    /\ report = "source_missing"

\* C7: a write-mode run that ends in an error leaves both artifacts holding
\* the text of this run or both as they were before it.
NoPartialWrites ==
    (pc = "done" /\ ~check /\ exitCode # 0) => (BothFresh \/ art = art0)

\* the place of a file in the lexicographic order of the directory's schemas
Rank(n) == 1 + Cardinality({m \in DOMAIN inFiles : LexLess(m, n)})

\* the endpoints of a sequence of mappings or mapping records
Endpoints(ms) == [k \in 1..Len(ms) |-> ms[k].endpoint]

\* C8: both rendered texts hold one entry per schema file, in lexicographic
\* order of the file names, and each interface's mapping records are the
\* document's mappings in the document's order.
OrderPreserved ==
    Rendered =>
        /\ Len(interfaces_header.interfaces_declarations) = Cardinality(DOMAIN inFiles)
        /\ Len(interfaces_source.interfaces_declarations) = Cardinality(DOMAIN inFiles)
        /\ \A n \in DOMAIN inFiles :
              LET r == Rank(n) IN
              /\ interfaces_header.interfaces_declarations[r].interface_name_sc
                     = Sanitize(inFiles[n].interface_name)
              /\ interfaces_source.interfaces_declarations[r].interface_name
                     = inFiles[n].interface_name
              /\ Endpoints(interfaces_source.interfaces_declarations[r].mappings)
                     = Endpoints(inFiles[n].mappings)

WitnessOrderPreserved ==
    /\ Rendered
    /\ Len(interfaces_source.interfaces_declarations) = 2
    /\ interfaces_source.interfaces_declarations[1].interface_name
           # interfaces_source.interfaces_declarations[2].interface_name
    /\ Endpoints(interfaces_source.interfaces_declarations[2].mappings)
           = << <<"/","b">>, <<"/","a">> >>

\* C9: a successful write-mode run that follows a successful write-mode run
\* leaves the artifacts the first one left, whatever the order in which each
\* run was handed the directory entries.
Determinism ==
    (pc = "done" /\ ~check /\ exitCode = 0 /\ AfterGoodWrite) => art = art0

WitnessDeterminism ==
    /\ pc = "done" /\ ~check /\ exitCode = 0 /\ AfterGoodWrite
    /\ Len(done) = 2
    /\ art = art0

\* C10: every interface record the generator emits comes from a document whose
\* type, ownership, aggregation and reliabilities are values of the closed
\* enumerations, and carries the constants of those values; a document with
\* any other raw value is rejected.
EnumTotality ==
    \A i \in 1..Len(done) :
        /\ KnownValues(inFiles[done[i]])
        /\ interfaces_structs[i].type[2] =
              (IF inFiles[done[i]].type = "properties" THEN "TYPE_PROPERTIES"
               ELSE "TYPE_DATASTREAM")
        /\ interfaces_structs[i].ownership[2] =
              (IF inFiles[done[i]].ownership = "server" THEN "OWNERSHIP_SERVER"
               ELSE "OWNERSHIP_DEVICE")
        /\ interfaces_structs[i].aggregation[2] =
              (IF inFiles[done[i]].aggregation = "object" THEN "AGGREGATION_OBJECT"
               ELSE "AGGREGATION_INDIVIDUAL")

\* the interface records of the rendered source
Structs == interfaces_source.interfaces_declarations

\* the declarations of the rendered header
Declarations == interfaces_header.interfaces_declarations

\* C11: in the rendered source, the number every interface record carries as
\* the size of its mapping array and as its mappings_length is the number of
\* mapping records rendered in that array, which is the number of mappings of
\* the document the interface was loaded from.
CountArrayAgreement ==
    Rendered =>
        /\ Len(Structs) = Cardinality(DOMAIN inFiles)
        /\ \A n \in DOMAIN inFiles :
              LET r == Rank(n) IN
              /\ Structs[r].mappings_number = Len(Structs[r].mappings)
              /\ Structs[r].mappings_number = Len(inFiles[n].mappings)

WitnessCountArrayAgreement ==
    /\ Rendered
    /\ \E i \in 1..Len(Structs) :
          Structs[i].mappings_number = 2 /\ Len(Structs[i].mappings) = 2
    /\ \E i \in 1..Len(Structs) : Structs[i].mappings_number = 1

\* C12: a document with no mappings is rejected and ends the run with a
\* failure: no interface record with a zero-length mapping array is ever
\* rendered.
NoEmptyMappingArray ==
    /\ \A i \in 1..Len(interfaces_structs) : interfaces_structs[i].mappings_number > 0
    /\ (pc = "done" /\ \E n \in DOMAIN inFiles : inFiles[n] = DocEmpty) => exitCode = 1

\* C13: from any prior state of the output location, a write-mode run that
\* succeeds leaves the output directory in existence and both artifacts
\* holding exactly the text rendered by the run, one entry per schema file.
WritePostcondition ==
    (pc = "done" /\ ~check /\ exitCode = 0) =>
        /\ dirExists
        /\ Rendered
        /\ BothFresh
        /\ art.h.text.kind = "header" /\ art.c.text.kind = "source"
        /\ Len(art.h.text.interfaces_declarations) = Cardinality(DOMAIN inFiles)
        /\ Len(art.c.text.interfaces_declarations) = Cardinality(DOMAIN inFiles)

WitnessWritePostcondition ==
    /\ pc = "done" /\ ~check /\ exitCode = 0
    /\ art0.h.present /\ art0.h.text = EditedText
    /\ ~art0.c.present
    /\ done # <<>>
    /\ BothFresh

\* the elements of a sequence
Range(s) == {s[i] : i \in 1..Len(s)}

\* the files the current run selected for loading
Selected == Range(done) \cup Range(todo)

\* C14: when the output directory is the input directory, the files a run
\* selects are the schema files of the directory, whatever artifacts earlier
\* write-mode runs have left there.
NoReingestion ==
    (sameDir /\ pc # "idle") => Selected = DOMAIN inFiles

WitnessNoReingestion ==
    /\ sameDir /\ pc = "load"
    /\ AfterGoodWrite
    /\ art.h.present /\ art.c.present
    /\ HeaderName(output_fn) \in DirEntries(inFiles, art, output_fn, sameDir)
    /\ Selected # {}

\* the symbols of a sequence of declarations or interface records
Symbols(rs) == [i \in 1..Len(rs) |-> rs[i].interface_name_sc]

\* C15: the symbols declared in the rendered header are, in the same order and
\* with the same multiplicity, the symbols defined in the rendered source, one
\* per schema file of the directory, also when there is none.
DeclarationsMatchDefinitions ==
    Rendered =>
        /\ Symbols(Declarations) = Symbols(Structs)
        /\ Len(Declarations) = Cardinality(DOMAIN inFiles)
        /\ \A n \in DOMAIN inFiles :
              Symbols(Declarations)[Rank(n)] = Sanitize(inFiles[n].interface_name)

WitnessDeclarationsMatchDefinitions ==
    /\ Rendered
    /\ Len(Declarations) = 2
    /\ Symbols(Declarations)[1] = Symbols(Declarations)[2]
    /\ Symbols(Structs)[2] = <<"o","_","a","_","b">>

====
